---- MODULE Spec2Model ----
(***************************************************************************)
(* The demo C engine of TestAngel (testangel-ipc/demo_c_engine.c) as a     *)
(* state machine.  The state is the engine image (the process-wide logger  *)
(* pointer ta_log and the engine's heap) together with what the host sees   *)
(* of it: the objects it was handed and has not released yet, the engine    *)
(* metadata struct it owns, and the record of the last call.  Every entry   *)
(* point is one action: the contract is synchronous and the host           *)
(* serialises its calls.                                                    *)
(***************************************************************************)
EXTENDS Integers, Sequences, FiniteSets, TLC

VARIABLES
    ta_log,         \* the static logger function pointer
    heap,           \* the engine's allocator: address -> block
    held,           \* host side: engine objects handed over and not yet released
    engineMetadata, \* host side: the ta_engine_metadata struct filled by out-parameter
    lastCall,       \* the last call: its arguments and what it returned
    logged,         \* what the last call delivered to the registered logger
    freedLog,       \* the pointers the last call passed to free(), in order
    ub,             \* kinds of undefined behaviour the last call executed
    hostArgs,       \* host side: the blocks of the parameter array it last passed
    status          \* "running", or "crashed" once undefined behaviour trapped

vars == <<ta_log, heap, held, engineMetadata, lastCall, logged, freedLog, ub,
          hostArgs, status>>

---------------------------------------------------------------------------
(* Bounds of the model *)

\* number of cells of the engine heap
MaxAddr == 10
\* longest parameter array the host passes to ta_execute
MaxParams == 2
\* most Results of consecutive ta_reset_state calls the host holds at once
MaxResets == 2

---------------------------------------------------------------------------
(* Pointers: NULL, a string literal in static storage, or a heap block *)

\* (string literals are written in ASCII: the source's backquotes appear as '
\* and its ellipsis as three dots)
NULL == [seg |-> "null", a |-> 0, s |-> ""]
Lit(str) == [seg |-> "static", a |-> 0, s |-> str]
HeapPtr(addr) == [seg |-> "heap", a |-> addr, s |-> ""]
\* a block the host allocated for a call
HostPtr(addr) == [seg |-> "host", a |-> addr, s |-> ""]

Addr == 1..MaxAddr
\* the host's blocks of one parameter array: the array, and per named value
\* the struct, its name and its boxed payload
HostCells == 1 + 3 * (MaxParams + 1)
HostAddr == (MaxAddr + 1)..(MaxAddr + HostCells)

(* Enumerations of testangel.h, by name *)
TESTANGEL_OK == "TESTANGEL_OK"
TESTANGEL_ERROR_INVALID_INSTRUCTION == "TESTANGEL_ERROR_INVALID_INSTRUCTION"
TESTANGEL_ERROR_INVALID_PARAMETER == "TESTANGEL_ERROR_INVALID_PARAMETER"
TESTANGEL_ERROR_MISSING_PARAMETER == "TESTANGEL_ERROR_MISSING_PARAMETER"
TESTANGEL_ERROR_INVALID_PARAMETER_TYPE == "TESTANGEL_ERROR_INVALID_PARAMETER_TYPE"

TA_PARAMETER_INTEGER == "TA_PARAMETER_INTEGER"
TA_PARAMETER_BOOLEAN == "TA_PARAMETER_BOOLEAN"
TA_EVIDENCE_TEXTUAL == "TA_EVIDENCE_TEXTUAL"

TA_LOG_TRACE == "TA_LOG_TRACE"
TA_LOG_DEBUG == "TA_LOG_DEBUG"
TA_LOG_INFO == "TA_LOG_INFO"

TA_INSTRUCTION_FLAG_PURE == "TA_INSTRUCTION_FLAG_PURE"
TA_INSTRUCTION_FLAG_AUTOMATIC == "TA_INSTRUCTION_FLAG_AUTOMATIC"
TA_INSTRUCTION_FLAG_INFALLIBLE == "TA_INSTRUCTION_FLAG_INFALLIBLE"

(* Kinds of undefined behaviour the code can execute *)
UB_NULL_LOGGER == "call through NULL ta_log"
UB_FREE_STATIC == "free() of a string literal"
UB_DOUBLE_FREE == "free() of a block that is not allocated"
UB_OVERFLOW == "signed overflow in paramA + paramB"
UB_OVERRUN == "walk past the end of an array"
UB_NULL_DEREF == "store through the NULL that malloc returned"

---------------------------------------------------------------------------
(* The host's inputs *)

\* logger callbacks the host may register
Loggers == {"hostLogA", "hostLogB"}
LogNone == "NULL"

InstructionIds == {"demo-add", "demo-sub"}
ParamNames == {"a", "b", "c"}
ParamKinds == {TA_PARAMETER_INTEGER, TA_PARAMETER_BOOLEAN}
Int32Max == 2147483647
Int32Min == -Int32Max - 1
IntValues == {2, 3, Int32Max}

\* a host named value: its name, the kind tag and the boxed payload (a boolean
\* payload is never read as an integer by the engine; it is kept as 0)
ParamSet ==
    {p \in [szName : ParamNames, kind : ParamKinds, iValue : IntValues \cup {0}] :
        (p.kind = TA_PARAMETER_INTEGER) = (p.iValue # 0)}

ParamLists == UNION {[1..n -> ParamSet] : n \in 0..MaxParams}

NamedValue(szName, kind, iValue) == [szName |-> szName, kind |-> kind, iValue |-> iValue]

\* every call of ta_execute with up to MaxParams parameters
ExecuteCalls == InstructionIds \X ParamLists

\* calls of demo-add with one parameter more than MaxParams, every one of them
\* named a or b: a name is supplied more than once
DuplicateParams == {p \in ParamSet : p.szName \in {"a", "b"} /\ p.iValue # Int32Max}
DuplicateCalls == {"demo-add"} \X [1..(MaxParams + 1) -> DuplicateParams]

\* the calls of ta_execute in the whole-lifecycle specification, one per result
\* code: another instruction, a and b missing, an unexpected name, a of the
\* wrong kind, a sum, and a sum that overflows
LifecycleCalls ==
    {<<"demo-sub", <<>>>>,
     <<"demo-add", <<>>>>,
     <<"demo-add", <<NamedValue("a", TA_PARAMETER_INTEGER, 2),
                     NamedValue("c", TA_PARAMETER_INTEGER, 2)>>>>,
     <<"demo-add", <<NamedValue("a", TA_PARAMETER_BOOLEAN, 0),
                     NamedValue("b", TA_PARAMETER_INTEGER, 2)>>>>,
     <<"demo-add", <<NamedValue("a", TA_PARAMETER_INTEGER, 2),
                     NamedValue("b", TA_PARAMETER_INTEGER, 3)>>>>,
     <<"demo-add", <<NamedValue("b", TA_PARAMETER_INTEGER, Int32Max),
                     NamedValue("a", TA_PARAMETER_INTEGER, 2)>>>>}

---------------------------------------------------------------------------
(* The allocator *)

FreeCell == [type |-> "free"]
IsFree(h, addr) == h[addr].type = "free"
FreeAddrs(h) == {addr \in Addr : IsFree(h, addr)}
Live(h) == Addr \ FreeAddrs(h)

\* malloc: the lowest free cell (first fit); callers guard that one exists
malloc(h) == CHOOSE addr \in FreeAddrs(h) : \A other \in FreeAddrs(h) : addr <= other

Store(h, addr, blk) == [h EXCEPT ![addr] = blk]

\* free(p) on heap h: the new heap and the undefined behaviour it executes.
\* free(NULL) does nothing; a literal or a block that is not allocated is
\* undefined behaviour and, when it does not trap, leaves the heap as it was.
free(h, p) ==
    IF p.seg = "null" THEN [heap |-> h, ub |-> {}]
    ELSE IF p.seg = "static" THEN [heap |-> h, ub |-> {UB_FREE_STATIC}]
    ELSE IF IsFree(h, p.a) THEN [heap |-> h, ub |-> {UB_DOUBLE_FREE}]
    ELSE [heap |-> Store(h, p.a, FreeCell), ub |-> {}]

\* the engine's heap and the host's blocks as the one memory a call runs in
Memory(h, host) ==
    [addr \in Addr \cup HostAddr |-> IF addr \in Addr THEN h[addr] ELSE host[addr]]
EngineHeap(m) == [addr \in Addr |-> m[addr]]
HostPart(m) == [addr \in HostAddr |-> m[addr]]

NoArgs == [addr \in HostAddr |-> FreeCell]

\* the parameter array the host builds for ta_execute: arpParameterList at the
\* first host address, then struct, name and payload of each named value
ArgsBase == MaxAddr + 1
HostArgs(params) ==
    [addr \in HostAddr |->
        LET k == addr - ArgsBase - 1
            i == (k \div 3) + 1
        IN  IF addr = ArgsBase
            THEN [type |-> "ta_named_value*[]",
                  elems |-> [j \in 1..Len(params) |-> HostPtr(ArgsBase + 3 * j - 2)]]
            ELSE IF i > Len(params) THEN FreeCell
            ELSE IF k % 3 = 0
            THEN [type |-> "ta_named_value", szName |-> HostPtr(addr + 1),
                  kind |-> params[i].kind, iValue |-> HostPtr(addr + 2)]
            ELSE IF k % 3 = 1 THEN [type |-> "char[]", str |-> params[i].szName]
            ELSE [type |-> IF params[i].kind = TA_PARAMETER_INTEGER
                           THEN "int32_t" ELSE "bool",
                  val |-> params[i].iValue]]

---------------------------------------------------------------------------
(* Logging *)

\* a ta_log(level, msg) call made when the engine's heap is h and the call has
\* passed the pointers of freed to free(): the callback runs at that moment,
\* with live the blocks allocated then
LogMsg(h, freed, level, msg) ==
    [level |-> level, msg |-> msg, live |-> Live(h), freed |-> Len(freed)]

\* ta_log(level, msg) for each message of msgs: delivered to the registered
\* callback; with ta_log still NULL the call is undefined behaviour and,
\* when it does not trap, delivers nothing
Deliver(lg, msgs) ==
    IF lg = LogNone THEN <<>>
    ELSE [i \in 1..Len(msgs) |->
             [to |-> lg, level |-> msgs[i].level, msg |-> msgs[i].msg,
              live |-> msgs[i].live, freed |-> msgs[i].freed]]

LogUB(lg, msgs) == IF lg = LogNone /\ msgs # <<>> THEN {UB_NULL_LOGGER} ELSE {}

---------------------------------------------------------------------------
(* The record of a call *)

Call(fn) ==
    [fn |-> fn, returned |-> TRUE, fnLog |-> LogNone,
     szInstructionId |-> "", arpParameterList |-> <<>>, bDryRun |-> FALSE,
     pResult |-> NULL, code |-> "", szReason |-> NULL,
     parpOutputInstructions |-> NULL, parpOutputList |-> NULL,
     parpOutputEvidenceList |-> NULL]

NoMetadata ==
    [iSupportsIpcVersion |-> 0, szFriendlyName |-> NULL, szLuaName |-> NULL,
     szVersion |-> NULL, szDescription |-> NULL]

\* What an entry point did: out == [heap, held, meta, call, logs, freed, ub],
\* heap being the memory (engine heap and host blocks) the call leaves.
\* Undefined behaviour either traps (the process is gone: nothing more is
\* called) or the call runs on to its return.
Commit(out) ==
    \E trap \in BOOLEAN :
        /\ trap => out.ub # {}
        /\ ub' = out.ub
        /\ freedLog' = out.freed
        /\ IF trap
           THEN /\ status' = "crashed"
                /\ lastCall' = [out.call EXCEPT !.returned = FALSE, !.pResult = NULL,
                                   !.code = "", !.szReason = NULL,
                                   !.parpOutputInstructions = NULL,
                                   !.parpOutputList = NULL,
                                   !.parpOutputEvidenceList = NULL]
                /\ logged' = <<>>
                /\ UNCHANGED <<heap, held, engineMetadata, hostArgs>>
           ELSE /\ status' = "running"
                /\ lastCall' = out.call
                /\ logged' = out.logs
                /\ heap' = EngineHeap(out.heap)
                /\ hostArgs' = HostPart(out.heap)
                /\ held' = out.held
                /\ engineMetadata' = out.meta

Handle(what, p) == [what |-> what, p |-> p]

\* The host keeps what a call returns in one variable per kind of object (a
\* Result, an instruction array, an output array, an evidence array) and
\* releases it before it makes a call that returns that kind again.
HostRoom(kinds) == \A hd \in held : hd.what \notin kinds

---------------------------------------------------------------------------
(* Entry points *)

Init ==
    /\ ta_log = LogNone
    /\ heap = [addr \in Addr |-> FreeCell]
    /\ hostArgs = NoArgs
    /\ held = {}
    /\ engineMetadata = NoMetadata
    /\ lastCall = Call("load")
    /\ logged = <<>>
    /\ freedLog = <<>>
    /\ ub = {}
    /\ status = "running"

\* mutant of ta_register_logger: the message goes out through the logger that
\* was registered before, and only then is fnLog stored
ta_register_logger_logsFirst(fnLog) ==
    /\ status = "running"
    /\ ta_log' = fnLog
    /\ Commit([heap |-> Memory(heap, hostArgs), held |-> held, meta |-> engineMetadata,
               call |-> [Call("ta_register_logger") EXCEPT !.fnLog = fnLog],
               logs |-> Deliver(ta_log, <<LogMsg(Memory(heap, hostArgs), <<>>, TA_LOG_DEBUG,
                                                "Logger registered")>>),
               freed |-> <<>>, ub |-> {}])

\* ta_register_logger(fnLog)
ta_register_logger(fnLog) ==
    /\ status = "running"
    /\ ta_log' = fnLog
    /\ Commit([heap |-> Memory(heap, hostArgs), held |-> held, meta |-> engineMetadata,
               call |-> [Call("ta_register_logger") EXCEPT !.fnLog = fnLog],
               logs |-> Deliver(fnLog, <<LogMsg(Memory(heap, hostArgs), <<>>, TA_LOG_DEBUG,
                                                "Logger registered")>>),
               freed |-> <<>>, ub |-> {}])

\* mutant of NewResult: the diagnostic is never attached
NewResult_noReason(h, code, szReason) ==
    LET pResult == malloc(h)
    IN  [heap |-> Store(h, pResult, [type |-> "ta_result", code |-> code,
                                        szReason |-> NULL]),
         pResult |-> HeapPtr(pResult)]

\* the Result a fallible entry point returns: malloc, code, szReason
NewResult(h, code, szReason) ==
    LET pResult == malloc(h)
    IN  [heap |-> Store(h, pResult, [type |-> "ta_result", code |-> code,
                                        szReason |-> szReason]),
         pResult |-> HeapPtr(pResult)]

\* mutant of reset_state: the reset drops every block of the engine's heap
reset_state_wipesHeap(h) ==
    LET msgs == <<LogMsg(h, <<>>, TA_LOG_TRACE, "ta_reset_state")>>
        r == NewResult(Memory([addr \in Addr |-> FreeCell], HostPart(h)),
                       TESTANGEL_OK, NULL)
    IN  [heap |-> r.heap, pResult |-> r.pResult, msgs |-> msgs]

\* ta_reset_state()
reset_state(h) ==
    LET msgs == <<LogMsg(h, <<>>, TA_LOG_TRACE, "ta_reset_state")>>
        r == NewResult(h, TESTANGEL_OK, NULL)
    IN  [heap |-> r.heap, pResult |-> r.pResult, msgs |-> msgs]

\* the host calls ta_reset_state when it has room for the Result
ta_reset_state_when(room) ==
    /\ status = "running"
    /\ FreeAddrs(heap) # {}
    /\ room
    /\ LET r == reset_state(Memory(heap, hostArgs))
       IN  Commit([heap |-> r.heap,
                   held |-> held \cup {Handle("result", r.pResult)},
                   meta |-> engineMetadata,
                   call |-> [Call("ta_reset_state") EXCEPT
                                !.pResult = r.pResult,
                                !.code = r.heap[r.pResult.a].code,
                                !.szReason = r.heap[r.pResult.a].szReason],
                   logs |-> Deliver(ta_log, r.msgs),
                   freed |-> <<>>,
                   ub |-> LogUB(ta_log, r.msgs)])
    /\ UNCHANGED ta_log

ta_reset_state == ta_reset_state_when(HostRoom({"result"}))

\* ta_reset_state called again straight after a ta_reset_state, the Results of
\* the earlier calls still held
ta_reset_state_again ==
    ta_reset_state_when(/\ lastCall.fn = "ta_reset_state"
                        /\ Cardinality({hd \in held : hd.what = "result"}) \in 1..(MaxResets - 1))

\* ta_free_result(pTarget)
free_result(h, pTarget) ==
    LET msgs == <<LogMsg(h, <<>>, TA_LOG_TRACE, "ta_free_result")>>
        szReason == h[pTarget.a].szReason
        f1 == IF szReason # NULL THEN free(h, szReason) ELSE [heap |-> h, ub |-> {}]
        f2 == free(f1.heap, pTarget)
    IN  [heap |-> f2.heap,
         freed |-> (IF szReason # NULL THEN <<szReason>> ELSE <<>>) \o <<pTarget>>,
         ub |-> f1.ub \cup f2.ub,
         msgs |-> msgs]

ta_free_result ==
    /\ status = "running"
    /\ \E hd \in held :
        /\ hd.what = "result"
        /\ LET r == free_result(Memory(heap, hostArgs), hd.p)
           IN  Commit([heap |-> r.heap,
                       held |-> held \ {hd},
                       meta |-> engineMetadata,
                       call |-> Call("ta_free_result"),
                       logs |-> Deliver(ta_log, r.msgs),
                       freed |-> r.freed,
                       ub |-> r.ub \cup LogUB(ta_log, r.msgs)])
    /\ UNCHANGED ta_log

---------------------------------------------------------------------------
(* NUL-terminated arrays of pointers *)

\* the index of the first NULL element, counted from 1; 0 when there is none
FirstNull(elems) ==
    IF \E i \in 1..Len(elems) : elems[i] = NULL
    THEN CHOOSE i \in 1..Len(elems) :
            elems[i] = NULL /\ \A j \in 1..(i - 1) : elems[j] # NULL
    ELSE 0

\* the elements a loop `for (i = 0; arp[i] != NULL; i++)` visits
Walk(elems) ==
    IF FirstNull(elems) = 0 THEN elems ELSE SubSeq(elems, 1, FirstNull(elems) - 1)

\* such a loop reads past the block when the block holds no NULL
WalkUB(elems) == IF FirstNull(elems) = 0 THEN {UB_OVERRUN} ELSE {}

\* Steps of a free function: a log line built in a temporary buffer
\* (malloc, snprintf, ta_log, free), or a free() of a pointer
TmpLog(msg) == [op |-> "tmp", msg |-> msg, p |-> NULL]
FreeOp(p) == [op |-> "free", msg |-> "", p |-> p]

\* runs steps k.. of ops from st == [heap, freed, ub, msgs]
RECURSIVE RunOps(_, _, _)
RunOps(st, ops, k) ==
    IF k > Len(ops) THEN st
    ELSE LET step == ops[k] IN
         IF step.op = "tmp"
         THEN LET logMsg == malloc(st.heap)
                  written == Store(st.heap, logMsg, [type |-> "char[]", str |-> step.msg])
                  f == free(written, HeapPtr(logMsg))
              IN  RunOps([st EXCEPT !.heap = f.heap,
                                    !.freed = Append(@, HeapPtr(logMsg)),
                                    !.ub = @ \cup f.ub,
                                    !.msgs = Append(@, LogMsg(written, st.freed,
                                                              TA_LOG_TRACE, step.msg))],
                         ops, k + 1)
         ELSE LET f == free(st.heap, step.p)
              IN  RunOps([st EXCEPT !.heap = f.heap,
                                    !.freed = Append(@, step.p),
                                    !.ub = @ \cup f.ub],
                         ops, k + 1)

\* concatenation of a sequence of sequences
RECURSIVE Flatten(_)
Flatten(seqs) == IF seqs = <<>> THEN <<>> ELSE Head(seqs) \o Flatten(Tail(seqs))

---------------------------------------------------------------------------
(* ta_request_instructions *)

\* mutant of InstructionNamedKind: szId and szName assigned the wrong way round
InstructionNamedKind_swapped(szId, szName, kind) ==
    [type |-> "ta_instruction_named_kind", szId |-> Lit(szName), szName |-> Lit(szId),
     kind |-> kind]

InstructionNamedKind(szId, szName, kind) ==
    [type |-> "ta_instruction_named_kind", szId |-> Lit(szId), szName |-> Lit(szName),
     kind |-> kind]

\* mutant of Array: the terminating NULL is not stored
Array_noSentinel(elemType, elems) ==
    [type |-> elemType \o "*[]", elems |-> SubSeq(elems, 1, Len(elems) - 1)]

\* a malloc'd array of pointers to elemType
Array(elemType, elems) == [type |-> elemType \o "*[]", elems |-> elems]

\* the locals of ta_request_instructions and what it has written so far
RequestLocals(h) ==
    [heap |-> h, pInstructionMetadata |-> NULL, pParamA |-> NULL, pParamB |-> NULL,
     pOutputResult |-> NULL, parpOutputInstructions |-> NULL,
     msgs |-> <<LogMsg(h, <<>>, TA_LOG_TRACE, "ta_request_instructions"),
                LogMsg(h, <<>>, TA_LOG_INFO, "Registering Demo C Engine...")>>]

\* ta_instruction_metadata *pInstructionMetadata = malloc(..) and its scalar fields
instruction_metadata(f) ==
    LET pInstructionMetadata == malloc(f.heap)
    IN  [f EXCEPT !.heap = Store(@, pInstructionMetadata,
                    [type |-> "ta_instruction_metadata",
                     szId |-> Lit("demo-add"),
                     szLuaName |-> Lit("Add"),
                     szFriendlyName |-> Lit("Add"),
                     szDescription |-> Lit("Add together two numbers"),
                     iFlags |-> {TA_INSTRUCTION_FLAG_PURE, TA_INSTRUCTION_FLAG_AUTOMATIC,
                                 TA_INSTRUCTION_FLAG_INFALLIBLE},
                     arpParameterList |-> NULL,
                     arpOutputList |-> NULL]),
                  !.pInstructionMetadata = HeapPtr(pInstructionMetadata)]

\* ta_instruction_named_kind *local = malloc(..) with its szId, szName and kind
named_kind(f, local, szId, szName) ==
    LET pKind == malloc(f.heap)
    IN  [f EXCEPT !.heap = Store(@, pKind,
                               InstructionNamedKind(szId, szName, TA_PARAMETER_INTEGER)),
                  ![local] = HeapPtr(pKind)]

\* arpParameterList = malloc(3 * ..) = {pParamA, pParamB, NULL}, stored in the metadata
parameter_list(f) ==
    LET arpParameterList == malloc(f.heap)
    IN  [f EXCEPT !.heap =
            [Store(@, arpParameterList,
                   Array("ta_instruction_named_kind", <<f.pParamA, f.pParamB, NULL>>))
             EXCEPT ![f.pInstructionMetadata.a].arpParameterList =
                        HeapPtr(arpParameterList)]]

\* arpOutputList = malloc(2 * ..) = {pOutputResult, NULL}, stored in the metadata
output_kind_list(f) ==
    LET arpOutputList == malloc(f.heap)
    IN  [f EXCEPT !.heap =
            [Store(@, arpOutputList,
                   Array("ta_instruction_named_kind", <<f.pOutputResult, NULL>>))
             EXCEPT ![f.pInstructionMetadata.a].arpOutputList = HeapPtr(arpOutputList)]]

\* ppInstructions = malloc(2 * ..) = {pInstructionMetadata, NULL}, handed out
instruction_array(f) ==
    LET ppInstructions == malloc(f.heap)
    IN  [f EXCEPT !.heap = Store(@, ppInstructions,
                               Array("ta_instruction_metadata",
                                     <<f.pInstructionMetadata, NULL>>)),
                  !.parpOutputInstructions = HeapPtr(ppInstructions)]

\* the Result of a request and what the call leaves behind
request_result(f) ==
    LET r == NewResult(f.heap, TESTANGEL_OK, NULL)
    IN  [heap |-> r.heap, pResult |-> r.pResult,
         msgs |-> f.msgs,
         meta |-> [iSupportsIpcVersion |-> 3,
                   szFriendlyName |-> Lit("Demo C Engine"),
                   szLuaName |-> Lit("DemoC"),
                   szVersion |-> Lit("0.0.0"),
                   szDescription |-> Lit("An example of an engine implemented in C")],
         parpOutputInstructions |-> f.parpOutputInstructions]

request_instructions(h) ==
    request_result(instruction_array(output_kind_list(
        named_kind(parameter_list(
            named_kind(named_kind(instruction_metadata(RequestLocals(h)),
                                  "pParamA", "a", "A"),
                       "pParamB", "b", "B")),
            "pOutputResult", "result", "Result"))))

\* cells ta_request_instructions allocates
RequestCells == 8

ta_request_instructions ==
    /\ status = "running"
    /\ Cardinality(FreeAddrs(heap)) >= RequestCells
    /\ HostRoom({"result", "instructions"})
    /\ \E r \in {request_instructions(Memory(heap, hostArgs))} :
           Commit([heap |-> r.heap,
                   held |-> held \cup {Handle("result", r.pResult),
                                       Handle("instructions", r.parpOutputInstructions)},
                   meta |-> r.meta,
                   call |-> [Call("ta_request_instructions") EXCEPT
                                !.pResult = r.pResult,
                                !.code = r.heap[r.pResult.a].code,
                                !.szReason = r.heap[r.pResult.a].szReason,
                                !.parpOutputInstructions = r.parpOutputInstructions],
                   logs |-> Deliver(ta_log, r.msgs),
                   freed |-> <<>>,
                   ub |-> LogUB(ta_log, r.msgs)])
    /\ UNCHANGED ta_log

---------------------------------------------------------------------------
(* ta_free_engine_metadata / ta_free_instruction_metadata_array *)

free_engine_metadata(h, pTarget) ==
    [heap |-> h, freed |-> <<>>, ub |-> {},
     msgs |-> <<LogMsg(h, <<>>, TA_LOG_TRACE, "ta_free_engine_metadata")>>]

\* the host passes the struct ta_request_instructions filled, and is done with it
ta_free_engine_metadata ==
    /\ status = "running"
    /\ engineMetadata # NoMetadata
    /\ LET r == free_engine_metadata(Memory(heap, hostArgs), engineMetadata)
       IN  Commit([heap |-> r.heap, held |-> held, meta |-> NoMetadata,
                   call |-> Call("ta_free_engine_metadata"),
                   logs |-> Deliver(ta_log, r.msgs),
                   freed |-> r.freed,
                   ub |-> r.ub \cup LogUB(ta_log, r.msgs)])
    /\ UNCHANGED ta_log

\* the inner loops over arpParameterList / arpOutputList of arpTarget[i]
NamedKindOps(elems, i, listName) ==
    Flatten([j \in 1..Len(Walk(elems)) |->
        <<TmpLog("ta_free_instruction_metadata_array -> arpTarget[" \o ToString(i)
                 \o "] -> " \o listName \o "[" \o ToString(j - 1) \o "]"),
          FreeOp(elems[j])>>])

free_instruction_metadata_array(h, arpTarget) ==
    LET elems == h[arpTarget.a].elems
        perMeta(i) ==
            LET pMeta == h[elems[i].a]
            IN  <<TmpLog("ta_free_instruction_metadata_array -> arpTarget["
                         \o ToString(i - 1) \o "]")>>
                \o NamedKindOps(h[pMeta.arpParameterList.a].elems, i - 1,
                                "arpParameterList")
                \o NamedKindOps(h[pMeta.arpOutputList.a].elems, i - 1, "arpOutputList")
                \o <<FreeOp(elems[i])>>
        ops == Flatten([i \in 1..Len(Walk(elems)) |-> perMeta(i)])
                 \o <<FreeOp(arpTarget)>>
        walkUB == WalkUB(elems) \cup UNION {
                     WalkUB(h[h[elems[i].a].arpParameterList.a].elems)
                     \cup WalkUB(h[h[elems[i].a].arpOutputList.a].elems) :
                     i \in 1..Len(Walk(elems))}
    IN  RunOps([heap |-> h, freed |-> <<>>, ub |-> walkUB,
                msgs |-> <<LogMsg(h, <<>>, TA_LOG_TRACE, "ta_free_instruction_metadata_array")>>],
               ops, 1)

ta_free_instruction_metadata_array ==
    /\ status = "running"
    /\ FreeAddrs(heap) # {}
    /\ \E hd \in held :
        /\ hd.what = "instructions"
        /\ LET r == free_instruction_metadata_array(Memory(heap, hostArgs), hd.p)
           IN  Commit([heap |-> r.heap,
                       held |-> held \ {hd},
                       meta |-> engineMetadata,
                       call |-> Call("ta_free_instruction_metadata_array"),
                       logs |-> Deliver(ta_log, r.msgs),
                       freed |-> r.freed,
                       ub |-> r.ub \cup LogUB(ta_log, r.msgs)])
    /\ UNCHANGED ta_log

---------------------------------------------------------------------------
(* ta_execute *)

\* int32_t paramA + paramB: the sum when it fits; on signed overflow
\* (undefined behaviour) the two's complement wrap-around when it does not trap
Add32(x, y) ==
    IF x > 0 /\ y > 0 /\ x > Int32Max - y
    THEN [val |-> (x - Int32Max - 1) + (y - Int32Max - 1), ub |-> {UB_OVERFLOW}]
    ELSE IF x < 0 /\ y < 0 /\ x < Int32Min - y
    THEN [val |-> (x + Int32Max + 1) + (y + Int32Max + 1), ub |-> {UB_OVERFLOW}]
    ELSE [val |-> x + y, ub |-> {}]

\* snprintf(.., "%d", n)
FormatInt(n) == ToString(n)

\* a malloc'd char buffer holding the NUL-terminated string str (every string
\* the engine formats is shorter than the 255 bytes it allocates)
CharBuf(str) == [type |-> "char[]", str |-> str]

ErrorOf(code, szReason) == [code |-> code, szReason |-> szReason]

\* mutant of ScanParameters: an unexpected name is skipped instead of rejected
RECURSIVE ScanParameters_skipUnknown(_, _, _, _)
ScanParameters_skipUnknown(arpParameterList, nParameterCount, i, loc) ==
    IF i > nParameterCount THEN loc
    ELSE LET pParam == arpParameterList[i] IN
         IF pParam.szName = "a"
         THEN IF pParam.kind # TA_PARAMETER_INTEGER
              THEN [loc EXCEPT !.paramASupplied = TRUE,
                               !.error = ErrorOf(TESTANGEL_ERROR_INVALID_PARAMETER_TYPE,
                                                 Lit("Parameter A must be an integer!"))]
              ELSE ScanParameters_skipUnknown(arpParameterList, nParameterCount, i + 1,
                       [loc EXCEPT !.paramASupplied = TRUE, !.paramA = pParam.iValue])
         ELSE IF pParam.szName = "b"
         THEN IF pParam.kind # TA_PARAMETER_INTEGER
              THEN [loc EXCEPT !.paramBSupplied = TRUE,
                               !.error = ErrorOf(TESTANGEL_ERROR_INVALID_PARAMETER_TYPE,
                                                 Lit("Parameter B must be an integer!"))]
              ELSE ScanParameters_skipUnknown(arpParameterList, nParameterCount, i + 1,
                       [loc EXCEPT !.paramBSupplied = TRUE, !.paramB = pParam.iValue])
         ELSE ScanParameters_skipUnknown(arpParameterList, nParameterCount, i + 1, loc)

\* mutant of ScanParameters: a value already taken for a or b is kept when the
\* name comes again
RECURSIVE ScanParameters_firstWins(_, _, _, _)
ScanParameters_firstWins(arpParameterList, nParameterCount, i, loc) ==
    IF i > nParameterCount THEN loc
    ELSE LET pParam == arpParameterList[i] IN
         IF pParam.szName = "a"
         THEN IF pParam.kind # TA_PARAMETER_INTEGER
              THEN [loc EXCEPT !.paramASupplied = TRUE,
                               !.error = ErrorOf(TESTANGEL_ERROR_INVALID_PARAMETER_TYPE,
                                                 Lit("Parameter A must be an integer!"))]
              ELSE ScanParameters_firstWins(arpParameterList, nParameterCount, i + 1,
                       [loc EXCEPT !.paramASupplied = TRUE,
                                   !.paramA = IF loc.paramASupplied THEN @
                                              ELSE pParam.iValue])
         ELSE IF pParam.szName = "b"
         THEN IF pParam.kind # TA_PARAMETER_INTEGER
              THEN [loc EXCEPT !.paramBSupplied = TRUE,
                               !.error = ErrorOf(TESTANGEL_ERROR_INVALID_PARAMETER_TYPE,
                                                 Lit("Parameter B must be an integer!"))]
              ELSE ScanParameters_firstWins(arpParameterList, nParameterCount, i + 1,
                       [loc EXCEPT !.paramBSupplied = TRUE,
                                   !.paramB = IF loc.paramBSupplied THEN @
                                              ELSE pParam.iValue])
         ELSE [loc EXCEPT !.error =
                  ErrorOf(TESTANGEL_ERROR_INVALID_PARAMETER,
                          Lit("One of the supplied parameters was unexpected!"))]

\* the parameter loop from index i (counted from 1) with the locals in loc:
\* the locals after the loop, or the error of the first rejected parameter
RECURSIVE ScanParameters(_, _, _, _)
ScanParameters(arpParameterList, nParameterCount, i, loc) ==
    IF i > nParameterCount THEN loc
    ELSE LET pParam == arpParameterList[i] IN
         IF pParam.szName = "a"
         THEN IF pParam.kind # TA_PARAMETER_INTEGER
              THEN [loc EXCEPT !.paramASupplied = TRUE,
                               !.error = ErrorOf(TESTANGEL_ERROR_INVALID_PARAMETER_TYPE,
                                                 Lit("Parameter A must be an integer!"))]
              ELSE ScanParameters(arpParameterList, nParameterCount, i + 1,
                       [loc EXCEPT !.paramASupplied = TRUE, !.paramA = pParam.iValue])
         ELSE IF pParam.szName = "b"
         THEN IF pParam.kind # TA_PARAMETER_INTEGER
              THEN [loc EXCEPT !.paramBSupplied = TRUE,
                               !.error = ErrorOf(TESTANGEL_ERROR_INVALID_PARAMETER_TYPE,
                                                 Lit("Parameter B must be an integer!"))]
              ELSE ScanParameters(arpParameterList, nParameterCount, i + 1,
                       [loc EXCEPT !.paramBSupplied = TRUE, !.paramB = pParam.iValue])
         ELSE [loc EXCEPT !.error =
                  ErrorOf(TESTANGEL_ERROR_INVALID_PARAMETER,
                          Lit("One of the supplied parameters was unexpected!"))]

\* mutant of ValidateExecute: the kind of a and b is checked in a second pass,
\* after every name has been checked
ValidateExecute_namesFirst(szInstructionId, arpParameterList, nParameterCount) ==
    LET loc0 == [paramA |-> 0, paramB |-> 0,
                 paramASupplied |-> FALSE, paramBSupplied |-> FALSE,
                 error |-> ErrorOf(TESTANGEL_OK, NULL)]
        loc == ScanParameters(arpParameterList, nParameterCount, 1, loc0)
    IN  IF szInstructionId # "demo-add"
        THEN [loc0 EXCEPT !.error = ErrorOf(TESTANGEL_ERROR_INVALID_INSTRUCTION,
                                            Lit("This engine only supports 'demo-add'."))]
        ELSE IF \E i \in 1..nParameterCount :
                    arpParameterList[i].szName \notin {"a", "b"}
        THEN [loc0 EXCEPT !.error =
                 ErrorOf(TESTANGEL_ERROR_INVALID_PARAMETER,
                         Lit("One of the supplied parameters was unexpected!"))]
        ELSE IF loc.error.code # TESTANGEL_OK THEN loc
        ELSE IF ~loc.paramASupplied
        THEN [loc EXCEPT !.error = ErrorOf(TESTANGEL_ERROR_MISSING_PARAMETER,
                                           Lit("Parameter 'a' was not supplied"))]
        ELSE IF ~loc.paramBSupplied
        THEN [loc EXCEPT !.error = ErrorOf(TESTANGEL_ERROR_MISSING_PARAMETER,
                                           Lit("Parameter 'b' was not supplied"))]
        ELSE loc

\* ta_execute up to the point where every early return is past: the locals,
\* with error.code = TESTANGEL_OK when the call goes on to compute the sum
ValidateExecute(szInstructionId, arpParameterList, nParameterCount) ==
    LET loc0 == [paramA |-> 0, paramB |-> 0,
                 paramASupplied |-> FALSE, paramBSupplied |-> FALSE,
                 error |-> ErrorOf(TESTANGEL_OK, NULL)]
    IN  IF szInstructionId # "demo-add"
        THEN [loc0 EXCEPT !.error = ErrorOf(TESTANGEL_ERROR_INVALID_INSTRUCTION,
                                            Lit("This engine only supports 'demo-add'."))]
        ELSE LET loc == ScanParameters(arpParameterList, nParameterCount, 1, loc0) IN
             IF loc.error.code # TESTANGEL_OK THEN loc
             ELSE IF ~loc.paramASupplied
             THEN [loc EXCEPT !.error = ErrorOf(TESTANGEL_ERROR_MISSING_PARAMETER,
                                                Lit("Parameter 'a' was not supplied"))]
             ELSE IF ~loc.paramBSupplied
             THEN [loc EXCEPT !.error = ErrorOf(TESTANGEL_ERROR_MISSING_PARAMETER,
                                                Lit("Parameter 'b' was not supplied"))]
             ELSE loc

\* what the parameter loop reads through arpParameterList[i]: pParam->szName,
\* pParam->value.kind and *pParam->value.value.iValue
LoadParameters(h, arpParameterList, nParameterCount) ==
    [i \in 1..nParameterCount |->
        LET pParam == h[h[arpParameterList.a].elems[i].a]
        IN  NamedValue(h[pParam.szName.a].str, pParam.kind, h[pParam.iValue.a].val)]

\* realloc(buf, n) of a live block to a smaller size: in place, or moved to
\* a new block (the old one released by the allocator)
realloc(h, buf, moved) ==
    IF moved
    THEN LET new == malloc(h)
         IN  [heap |-> Store(Store(h, new, h[buf]), buf, FreeCell), p |-> new]
    ELSE [heap |-> h, p |-> buf]

\* the locals of ta_execute once every early return is past
Locals(h, paramA, paramB) ==
    [heap |-> h, paramA |-> paramA, paramB |-> paramB,
     msgs |-> <<>>, freed |-> <<>>, ub |-> {},
     pOutputResult |-> NULL, pEvidence |-> NULL, buf |-> NULL,
     arpEvidenceList |-> NULL, pOutput |-> NULL, arpOutputList |-> NULL]

\* char *logLine = malloc(255); snprintf(logLine, ..); ta_log(TA_LOG_DEBUG, logLine);
\* free(logLine)
log_line(f, str) ==
    LET logLine == malloc(f.heap)
        written == Store(f.heap, logLine, CharBuf(str))
        fr == free(written, HeapPtr(logLine))
    IN  [f EXCEPT !.heap = fr.heap,
                  !.msgs = Append(@, LogMsg(written, f.freed, TA_LOG_DEBUG,
                                            written[logLine].str)),
                  !.freed = Append(@, HeapPtr(logLine)),
                  !.ub = @ \cup fr.ub]

\* int32_t *pOutputResult = malloc(..); *pOutputResult = paramA + paramB
sum_output(f) ==
    LET pOutputResult == malloc(f.heap)
        sum == Add32(f.paramA, f.paramB)
    IN  [f EXCEPT !.heap = Store(@, pOutputResult, [type |-> "int32_t", val |-> sum.val]),
                  !.pOutputResult = HeapPtr(pOutputResult),
                  !.ub = @ \cup sum.ub]

\* ta_evidence *pEvidence = malloc(..) with its label and kind
evidence_struct(f) ==
    LET pEvidence == malloc(f.heap)
    IN  [f EXCEPT !.heap = Store(@, pEvidence,
                               [type |-> "ta_evidence", szLabel |-> Lit("Sum"),
                                kind |-> TA_EVIDENCE_TEXTUAL, value |-> NULL]),
                  !.pEvidence = HeapPtr(pEvidence)]

\* char *buf = malloc(255); snprintf(buf, 255, "%d + %d = %d", ..)
evidence_text(f) ==
    LET buf == malloc(f.heap)
    IN  [f EXCEPT !.heap = Store(@, buf,
                               CharBuf(FormatInt(f.paramA) \o " + " \o FormatInt(f.paramB)
                                       \o " = "
                                       \o FormatInt(f.heap[f.pOutputResult.a].val))),
                  !.buf = HeapPtr(buf)]

\* buf = realloc(buf, strlen(buf) + 1); pEvidence->value = buf
evidence_value(f, moved) ==
    LET re == realloc(f.heap, f.buf.a, moved)
    IN  [f EXCEPT !.heap = [re.heap EXCEPT ![f.pEvidence.a].value = HeapPtr(re.p)],
                  !.buf = HeapPtr(re.p)]

\* arpEvidenceList = malloc(2 * ..); [0] = pEvidence; [1] = NULL
evidence_list(f) ==
    LET arpEvidenceList == malloc(f.heap)
    IN  [f EXCEPT !.heap = Store(@, arpEvidenceList,
                               Array("ta_evidence", <<f.pEvidence, NULL>>)),
                  !.arpEvidenceList = HeapPtr(arpEvidenceList)]

\* ta_named_value *pOutput = malloc(..) named "result", boxing pOutputResult
output_value(f) ==
    LET pOutput == malloc(f.heap)
    IN  [f EXCEPT !.heap = Store(@, pOutput,
                               [type |-> "ta_named_value", szName |-> Lit("result"),
                                kind |-> TA_PARAMETER_INTEGER,
                                iValue |-> f.pOutputResult]),
                  !.pOutput = HeapPtr(pOutput)]

\* arpOutputList = malloc(2 * ..); [0] = pOutput; [1] = NULL
output_list(f) ==
    LET arpOutputList == malloc(f.heap)
    IN  [f EXCEPT !.heap = Store(@, arpOutputList,
                               Array("ta_named_value", <<f.pOutput, NULL>>)),
                  !.arpOutputList = HeapPtr(arpOutputList)]

\* ta_result *pResult = malloc(..) with TESTANGEL_OK, and what the call leaves behind
ok_result(f) ==
    LET r == NewResult(f.heap, TESTANGEL_OK, NULL)
    IN  [heap |-> r.heap, pResult |-> r.pResult, msgs |-> f.msgs,
         freed |-> f.freed, ub |-> f.ub,
         parpOutputList |-> f.arpOutputList,
         parpOutputEvidenceList |-> f.arpEvidenceList]

\* the computation of ta_execute after validation, statement by statement
execute_sum(h, paramA, paramB, moved) ==
    ok_result(output_list(output_value(evidence_list(evidence_value(
        evidence_text(evidence_struct(sum_output(
            log_line(log_line(Locals(h, paramA, paramB),
                              "paramA = " \o FormatInt(paramA)),
                     "paramB = " \o FormatInt(paramB))))),
        moved)))))

\* mutant of execute: a dry run skips the addition and reports a sum of 0 + 0
execute_dryRunSkips(h, szInstructionId, arpParameterList, nParameterCount, bDryRun, moved) ==
    LET trace == <<LogMsg(h, <<>>, TA_LOG_TRACE, "ta_execute")>>
        loc == ValidateExecute(szInstructionId,
                               LoadParameters(h, arpParameterList, nParameterCount),
                               nParameterCount)
    IN  IF loc.error.code # TESTANGEL_OK
        THEN LET r == NewResult(h, loc.error.code, loc.error.szReason)
             IN  [heap |-> r.heap, pResult |-> r.pResult, msgs |-> trace,
                  freed |-> <<>>, ub |-> {},
                  parpOutputList |-> NULL, parpOutputEvidenceList |-> NULL]
        ELSE LET r == IF bDryRun THEN execute_sum(h, 0, 0, moved)
                      ELSE execute_sum(h, loc.paramA, loc.paramB, moved)
             IN  [r EXCEPT !.msgs = trace \o @]

\* mutant of execute: the output list is allocated, empty, and handed out before
\* the arguments are validated
execute_outputsFirst(h, szInstructionId, arpParameterList, nParameterCount, bDryRun, moved) ==
    LET trace == <<LogMsg(h, <<>>, TA_LOG_TRACE, "ta_execute")>>
        loc == ValidateExecute(szInstructionId,
                               LoadParameters(h, arpParameterList, nParameterCount),
                               nParameterCount)
    IN  IF loc.error.code # TESTANGEL_OK
        THEN LET arpOutputList == malloc(h)
                 r == NewResult(Store(h, arpOutputList, Array("ta_named_value", <<NULL>>)),
                                loc.error.code, loc.error.szReason)
             IN  [heap |-> r.heap, pResult |-> r.pResult, msgs |-> trace,
                  freed |-> <<>>, ub |-> {},
                  parpOutputList |-> HeapPtr(arpOutputList),
                  parpOutputEvidenceList |-> NULL]
        ELSE LET r == execute_sum(h, loc.paramA, loc.paramB, moved)
             IN  [r EXCEPT !.msgs = trace \o @]

\* mutant of execute: the engine releases the parameter array it was passed
execute_freesParameters(h, szInstructionId, arpParameterList, nParameterCount, bDryRun, moved) ==
    LET trace == <<LogMsg(h, <<>>, TA_LOG_TRACE, "ta_execute")>>
        loc == ValidateExecute(szInstructionId,
                               LoadParameters(h, arpParameterList, nParameterCount),
                               nParameterCount)
        released == free(h, arpParameterList).heap
    IN  IF loc.error.code # TESTANGEL_OK
        THEN LET r == NewResult(released, loc.error.code, loc.error.szReason)
             IN  [heap |-> r.heap, pResult |-> r.pResult, msgs |-> trace,
                  freed |-> <<>>, ub |-> {},
                  parpOutputList |-> NULL, parpOutputEvidenceList |-> NULL]
        ELSE LET r == execute_sum(released, loc.paramA, loc.paramB, moved)
             IN  [r EXCEPT !.msgs = trace \o @]

execute(h, szInstructionId, arpParameterList, nParameterCount, bDryRun, moved) ==
    LET trace == <<LogMsg(h, <<>>, TA_LOG_TRACE, "ta_execute")>>
        loc == ValidateExecute(szInstructionId,
                               LoadParameters(h, arpParameterList, nParameterCount),
                               nParameterCount)
    IN  IF loc.error.code # TESTANGEL_OK
        THEN LET r == NewResult(h, loc.error.code, loc.error.szReason)
             IN  [heap |-> r.heap, pResult |-> r.pResult, msgs |-> trace,
                  freed |-> <<>>, ub |-> {},
                  parpOutputList |-> NULL, parpOutputEvidenceList |-> NULL]
        ELSE LET r == execute_sum(h, loc.paramA, loc.paramB, moved)
             IN  [r EXCEPT !.msgs = trace \o @]

\* the cells a ta_execute call allocates and the kinds of object it returns
ExecuteCells == 7
ExecuteNeeds(szInstructionId, arpParameterList) ==
    IF ValidateExecute(szInstructionId, arpParameterList,
                       Len(arpParameterList)).error.code = TESTANGEL_OK
    THEN [cells |-> ExecuteCells, kinds |-> {"result", "outputs", "evidence"}]
    ELSE [cells |-> 1, kinds |-> {"result"}]

\* the host calls ta_execute with an instruction and a parameter array out of
\* calls; it keeps the array afterwards (keeps), or releases its blocks as soon
\* as the call has returned
ta_execute_on(calls, keeps) ==
    /\ status = "running"
    /\ \E call \in calls, bDryRun \in BOOLEAN :
        LET szInstructionId == call[1]
            arpParameterList == call[2]
            needs == ExecuteNeeds(szInstructionId, arpParameterList)
        IN
        /\ Cardinality(FreeAddrs(heap)) >= needs.cells
        /\ HostRoom(needs.kinds)
        /\ \E moved \in (IF "outputs" \in needs.kinds THEN BOOLEAN ELSE {FALSE}) :
           \E r \in {execute(Memory(heap, HostArgs(arpParameterList)), szInstructionId,
                            HostPtr(ArgsBase), Len(arpParameterList), bDryRun,
                            moved)} :
               Commit([heap |-> IF keeps THEN r.heap
                                ELSE Memory(EngineHeap(r.heap), NoArgs),
                       held |-> held \cup {Handle("result", r.pResult)}
                                \cup (IF r.parpOutputList # NULL
                                      THEN {Handle("outputs", r.parpOutputList)} ELSE {})
                                \cup (IF r.parpOutputEvidenceList # NULL
                                      THEN {Handle("evidence", r.parpOutputEvidenceList)}
                                      ELSE {}),
                       meta |-> engineMetadata,
                       call |-> [Call("ta_execute") EXCEPT
                                    !.szInstructionId = szInstructionId,
                                    !.arpParameterList = arpParameterList,
                                    !.bDryRun = bDryRun,
                                    !.pResult = r.pResult,
                                    !.code = r.heap[r.pResult.a].code,
                                    !.szReason = r.heap[r.pResult.a].szReason,
                                    !.parpOutputList = r.parpOutputList,
                                    !.parpOutputEvidenceList = r.parpOutputEvidenceList],
                       logs |-> Deliver(ta_log, r.msgs),
                       freed |-> r.freed,
                       ub |-> r.ub \cup LogUB(ta_log, r.msgs)])
    /\ UNCHANGED ta_log

ta_execute == ta_execute_on(LifecycleCalls, TRUE)

---------------------------------------------------------------------------
(* ta_free_named_value_array / ta_free_evidence_array *)

\* mutant of ta_free_named_value_array: the boxed payload is not released
free_named_value_array_keepsPayload(h, arpTarget) ==
    LET elems == h[arpTarget.a].elems
        ops == Flatten([i \in 1..Len(Walk(elems)) |->
                  <<TmpLog("ta_free_named_value_array -> arpTarget["
                           \o ToString(i - 1) \o "]"),
                    FreeOp(elems[i])>>])
               \o <<FreeOp(arpTarget)>>
    IN  RunOps([heap |-> h, freed |-> <<>>, ub |-> WalkUB(elems),
                msgs |-> <<LogMsg(h, <<>>, TA_LOG_TRACE, "ta_free_named_value_array")>>],
               ops, 1)

free_named_value_array(h, arpTarget) ==
    LET elems == h[arpTarget.a].elems
        ops == Flatten([i \in 1..Len(Walk(elems)) |->
                  <<TmpLog("ta_free_named_value_array -> arpTarget["
                           \o ToString(i - 1) \o "]"),
                    FreeOp(h[elems[i].a].iValue),
                    FreeOp(elems[i])>>])
               \o <<FreeOp(arpTarget)>>
    IN  RunOps([heap |-> h, freed |-> <<>>, ub |-> WalkUB(elems),
                msgs |-> <<LogMsg(h, <<>>, TA_LOG_TRACE, "ta_free_named_value_array")>>],
               ops, 1)

ta_free_named_value_array ==
    /\ status = "running"
    /\ FreeAddrs(heap) # {}
    /\ \E hd \in held :
        /\ hd.what = "outputs"
        /\ LET r == free_named_value_array(Memory(heap, hostArgs), hd.p)
           IN  Commit([heap |-> r.heap,
                       held |-> held \ {hd},
                       meta |-> engineMetadata,
                       call |-> Call("ta_free_named_value_array"),
                       logs |-> Deliver(ta_log, r.msgs),
                       freed |-> r.freed,
                       ub |-> r.ub \cup LogUB(ta_log, r.msgs)])
    /\ UNCHANGED ta_log

free_evidence_array(h, arpTarget) ==
    LET elems == h[arpTarget.a].elems
        ops == Flatten([i \in 1..Len(Walk(elems)) |->
                  <<TmpLog("ta_free_evidence_array -> arpTarget["
                           \o ToString(i - 1) \o "]"),
                    FreeOp(h[elems[i].a].value),
                    FreeOp(elems[i])>>])
               \o <<FreeOp(arpTarget)>>
    IN  RunOps([heap |-> h, freed |-> <<>>, ub |-> WalkUB(elems),
                msgs |-> <<LogMsg(h, <<>>, TA_LOG_TRACE, "ta_free_evidence_array")>>],
               ops, 1)

ta_free_evidence_array ==
    /\ status = "running"
    /\ FreeAddrs(heap) # {}
    /\ \E hd \in held :
        /\ hd.what = "evidence"
        /\ LET r == free_evidence_array(Memory(heap, hostArgs), hd.p)
           IN  Commit([heap |-> r.heap,
                       held |-> held \ {hd},
                       meta |-> engineMetadata,
                       call |-> Call("ta_free_evidence_array"),
                       logs |-> Deliver(ta_log, r.msgs),
                       freed |-> r.freed,
                       ub |-> r.ub \cup LogUB(ta_log, r.msgs)])
    /\ UNCHANGED ta_log

Next ==
    \/ \E fnLog \in Loggers : ta_register_logger(fnLog)
    \/ ta_request_instructions
    \/ ta_execute
    \/ ta_reset_state
    \/ ta_free_result
    \/ ta_free_engine_metadata
    \/ ta_free_instruction_metadata_array
    \/ ta_free_named_value_array
    \/ ta_free_evidence_array

Spec == Init /\ [][Next]_vars

\* The host exercising ta_execute alone, with every parameter array of up to
\* MaxParams named values, releasing its array when the call has returned and
\* what the call returned before the next call
ta_execute_any == held = {} /\ ta_execute_on(ExecuteCalls, FALSE)
\* the same host passing a or b more than once
ta_execute_duplicates == held = {} /\ ta_execute_on(DuplicateCalls, FALSE)

NextExecute ==
    \/ \E fnLog \in Loggers : ta_register_logger(fnLog)
    \/ ta_execute_any
    \/ ta_execute_duplicates
    \/ ta_free_result
    \/ ta_free_named_value_array
    \/ ta_free_evidence_array

SpecExecute == Init /\ [][NextExecute]_vars

\* A call whose outcome is r when the process has run out of memory by the
\* time the Result is allocated: malloc returns NULL, takes no cell, and the
\* stores to pResult->code and pResult->szReason go through that NULL
ResultMallocFailed(r) ==
    [r EXCEPT !.heap = Store(@, r.pResult.a, FreeCell), !.pResult = NULL]

ta_reset_state_nomem ==
    /\ status = "running"
    /\ FreeAddrs(heap) # {}
    /\ \E r \in {ResultMallocFailed(reset_state(Memory(heap, hostArgs)))} :
           Commit([heap |-> r.heap, held |-> held, meta |-> engineMetadata,
                   call |-> Call("ta_reset_state"),
                   logs |-> Deliver(ta_log, r.msgs),
                   freed |-> <<>>,
                   ub |-> {UB_NULL_DEREF} \cup LogUB(ta_log, r.msgs)])
    /\ UNCHANGED ta_log

ta_request_instructions_nomem ==
    /\ status = "running"
    /\ Cardinality(FreeAddrs(heap)) >= RequestCells
    /\ HostRoom({"instructions"})
    /\ \E r \in {ResultMallocFailed(request_instructions(Memory(heap, hostArgs)))} :
           Commit([heap |-> r.heap,
                   held |-> held \cup {Handle("instructions", r.parpOutputInstructions)},
                   meta |-> r.meta,
                   call |-> [Call("ta_request_instructions") EXCEPT
                                !.parpOutputInstructions = r.parpOutputInstructions],
                   logs |-> Deliver(ta_log, r.msgs),
                   freed |-> <<>>,
                   ub |-> {UB_NULL_DEREF} \cup LogUB(ta_log, r.msgs)])
    /\ UNCHANGED ta_log

ta_execute_nomem ==
    /\ status = "running"
    /\ \E call \in LifecycleCalls, bDryRun \in BOOLEAN :
        LET szInstructionId == call[1]
            arpParameterList == call[2]
            needs == ExecuteNeeds(szInstructionId, arpParameterList)
        IN
        /\ Cardinality(FreeAddrs(heap)) >= needs.cells
        /\ HostRoom(needs.kinds \ {"result"})
        /\ \E r \in {ResultMallocFailed(
                        execute(Memory(heap, HostArgs(arpParameterList)), szInstructionId,
                                HostPtr(ArgsBase), Len(arpParameterList), bDryRun,
                                FALSE))} :
               Commit([heap |-> r.heap,
                       held |-> held
                                \cup (IF r.parpOutputList # NULL
                                      THEN {Handle("outputs", r.parpOutputList)} ELSE {})
                                \cup (IF r.parpOutputEvidenceList # NULL
                                      THEN {Handle("evidence", r.parpOutputEvidenceList)}
                                      ELSE {}),
                       meta |-> engineMetadata,
                       call |-> [Call("ta_execute") EXCEPT
                                    !.szInstructionId = szInstructionId,
                                    !.arpParameterList = arpParameterList,
                                    !.bDryRun = bDryRun,
                                    !.parpOutputList = r.parpOutputList,
                                    !.parpOutputEvidenceList = r.parpOutputEvidenceList],
                       logs |-> Deliver(ta_log, r.msgs),
                       freed |-> r.freed,
                       ub |-> {UB_NULL_DEREF} \cup r.ub \cup LogUB(ta_log, r.msgs)])
    /\ UNCHANGED ta_log

\* A host that makes its fallible calls holding nothing of an earlier call, in
\* a process that has run out of memory by the time the Result is allocated,
\* and releases what the call handed it
NextNoMemory ==
    \/ \E fnLog \in Loggers : ta_register_logger(fnLog)
    \/ held = {} /\ ta_reset_state_nomem
    \/ held = {} /\ ta_request_instructions_nomem
    \/ held = {} /\ ta_execute_nomem
    \/ ta_reset_state
    \/ ta_free_result
    \/ ta_free_engine_metadata
    \/ ta_free_instruction_metadata_array
    \/ ta_free_named_value_array
    \/ ta_free_evidence_array

SpecNoMemory == Init /\ [][NextNoMemory]_vars

\* The whole lifecycle with runs of consecutive ta_reset_state calls
NextReset ==
    \/ Next
    \/ ta_reset_state_again

SpecReset == Init /\ [][NextReset]_vars

---------------------------------------------------------------------------
(* What the host can observe of the heap *)

\* the heap blocks a block points to
Children(h, addr) ==
    LET blk == h[addr]
        ptrs == IF blk.type = "ta_result" THEN {blk.szReason}
                ELSE IF blk.type = "ta_instruction_metadata"
                THEN {blk.arpParameterList, blk.arpOutputList}
                ELSE IF blk.type = "ta_named_value" THEN {blk.iValue}
                ELSE IF blk.type = "ta_evidence" THEN {blk.value}
                ELSE IF "elems" \in DOMAIN blk
                THEN {blk.elems[i] : i \in 1..Len(blk.elems)}
                ELSE {}
    IN  {q.a : q \in {q \in ptrs : q.seg = "heap"}}

\* the blocks reachable from the blocks in seen, through live blocks
RECURSIVE Reach(_, _)
Reach(h, seen) ==
    LET more == UNION {Children(h, addr) : addr \in seen \cap Live(h)} \ seen
    IN  IF more = {} THEN seen ELSE Reach(h, seen \cup more)

\* the blocks the host can still release: those reachable from an object it holds
Owned(kinds) == Reach(heap, {hd.p.a : hd \in {hd \in held : hd.what \in kinds}})

\* the last call passed only heap blocks to free(), each while it was
\* allocated (an address may recur: malloc hands a released cell out again)
FreesHeapOnce ==
    /\ \A i \in 1..Len(freedLog) : freedLog[i].seg = "heap"
    /\ ub \cap {UB_FREE_STATIC, UB_DOUBLE_FREE} = {}

MetadataTypes ==
    {"ta_instruction_metadata*[]", "ta_instruction_metadata",
     "ta_instruction_named_kind*[]", "ta_instruction_named_kind"}

OutputTypes ==
    {"ta_named_value*[]", "ta_named_value", "int32_t",
     "ta_evidence*[]", "ta_evidence", "char[]"}

---------------------------------------------------------------------------
(* Claims *)

\* C1: while no logger is registered (ta_log is still NULL), every entry
\* point completes without calling through the logger pointer.
C1_NoLoggerNoCall ==
    ta_log = LogNone => (status = "running" /\ UB_NULL_LOGGER \notin ub)

\* C2: ta_free_result, on any Result an entry point returned, passes only
\* heap blocks to the deallocator, each once: never a static reason string.
C2_FreeResultFreesHeapOnly ==
    lastCall.fn = "ta_free_result" =>
        FreesHeapOnce

\* C3: once the host has released an instruction array with
\* ta_free_instruction_metadata_array, every block ta_request_instructions
\* allocated for it is released, exactly once: every instruction metadata
\* block still allocated belongs to an array the host still holds.
C3_InstructionMetadataReleased ==
    /\ \A addr \in Live(heap) :
          heap[addr].type \in MetadataTypes => addr \in Owned({"instructions"})
    /\ lastCall.fn = "ta_free_instruction_metadata_array" =>
          FreesHeapOnce

\* C4: once the host has released the output array with
\* ta_free_named_value_array and the evidence array with
\* ta_free_evidence_array, every block ta_execute allocated for them is
\* released, exactly once, the temporary log-line buffers included, and no
\* static string went to the deallocator.
C4_ExecuteOutputsReleased ==
    /\ \A addr \in Live(heap) :
          heap[addr].type \in OutputTypes => addr \in Owned({"outputs", "evidence"})
    /\ lastCall.fn \in {"ta_execute", "ta_free_named_value_array",
                        "ta_free_evidence_array"} =>
          FreesHeapOnce /\ UB_OVERRUN \notin ub

\* C4 witness: a successful ta_execute whose two arrays have both been
\* released, the evidence array last.
C4_Witness ==
    /\ lastCall.fn = "ta_free_evidence_array"
    /\ lastCall.returned
    /\ Len(freedLog) = 4
    /\ \A hd \in held : hd.what \notin {"outputs", "evidence"}
    /\ \A i \in 1..Len(freedLog) : IsFree(heap, freedLog[i].a)


\* what the host reads through the pointers a call returned
DecodeNamedKinds(h, list) ==
    LET elems == Walk(h[list.a].elems)
    IN  [i \in 1..Len(elems) |->
            <<h[elems[i].a].szId.s, h[elems[i].a].szName.s, h[elems[i].a].kind>>]

DecodeInstructions(h, arp) ==
    LET elems == Walk(h[arp.a].elems)
    IN  [i \in 1..Len(elems) |->
            LET m == h[elems[i].a]
            IN  [id |-> m.szId.s, flags |-> m.iFlags,
                 params |-> DecodeNamedKinds(h, m.arpParameterList),
                 outputs |-> DecodeNamedKinds(h, m.arpOutputList)]]

DecodeNamedValues(h, arp) ==
    IF arp = NULL THEN <<>>
    ELSE LET elems == Walk(h[arp.a].elems)
         IN  [i \in 1..Len(elems) |->
                 <<h[elems[i].a].szName.s, h[elems[i].a].kind,
                   h[h[elems[i].a].iValue.a].val>>]

DecodeEvidence(h, arp) ==
    IF arp = NULL THEN <<>>
    ELSE LET elems == Walk(h[arp.a].elems)
         IN  [i \in 1..Len(elems) |->
                 <<h[elems[i].a].szLabel.s, h[elems[i].a].kind,
                   h[h[elems[i].a].value.a].str>>]

Fallible == {"ta_request_instructions", "ta_execute", "ta_reset_state"}

\* the last call was a ta_execute that returned its Result
ExecuteReturned == lastCall.fn = "ta_execute" /\ lastCall.returned

ParamIndex == 1..Len(lastCall.arpParameterList)
ParamName(i) == lastCall.arpParameterList[i].szName
Supplied(name) == \E i \in ParamIndex : ParamName(i) = name
\* the parameters the scan rejects: an unexpected name, or a or b of another kind
Rejected ==
    {i \in ParamIndex :
        \/ ParamName(i) \notin {"a", "b"}
        \/ lastCall.arpParameterList[i].kind # TA_PARAMETER_INTEGER}
FirstRejected == CHOOSE i \in Rejected : \A j \in Rejected : i <= j

\* C5: demo-add is advertised INFALLIBLE, and ta_execute("demo-add", ...)
\* returns TESTANGEL_OK for every parameter list and every bDryRun.
C5_InfallibleNeverFails ==
    /\ \A addr \in Live(heap) :
          (heap[addr].type = "ta_instruction_metadata"
              /\ heap[addr].szId = Lit("demo-add"))
          => TA_INSTRUCTION_FLAG_INFALLIBLE \in heap[addr].iFlags
    /\ (ExecuteReturned /\ lastCall.szInstructionId = "demo-add")
          => lastCall.code = TESTANGEL_OK

\* the result code C6 gives for the arguments of the last call
C6_Code ==
    IF lastCall.szInstructionId # "demo-add"
    THEN TESTANGEL_ERROR_INVALID_INSTRUCTION
    ELSE IF Rejected # {}
    THEN IF ParamName(FirstRejected) \notin {"a", "b"}
         THEN TESTANGEL_ERROR_INVALID_PARAMETER
         ELSE TESTANGEL_ERROR_INVALID_PARAMETER_TYPE
    ELSE IF ~Supplied("a") \/ ~Supplied("b")
    THEN TESTANGEL_ERROR_MISSING_PARAMETER
    ELSE TESTANGEL_OK

\* C6: the result code of ta_execute is decided by its inputs: INVALID_INSTRUCTION
\* for another instruction; else by the first rejected parameter, INVALID_PARAMETER
\* for an unexpected name and INVALID_PARAMETER_TYPE for a or b of another kind;
\* else MISSING_PARAMETER when a or b is absent; else OK.  The call hands the
\* host one Result, which carries that one code.
C6_ExecuteCode ==
    ExecuteReturned =>
        /\ lastCall.code = C6_Code
        /\ Handle("result", lastCall.pResult) \in held
        /\ heap[lastCall.pResult.a].type = "ta_result"
        /\ heap[lastCall.pResult.a].code = lastCall.code

\* C6 witness: a wrong-kind a ahead of an unexpected name is reported as a
\* type error.
C6_Witness ==
    /\ ExecuteReturned
    /\ lastCall.code = TESTANGEL_ERROR_INVALID_PARAMETER_TYPE
    /\ Len(lastCall.arpParameterList) = 2
    /\ ParamName(1) = "a" /\ ParamName(2) = "c"

\* C7: in ta_execute("demo-add", params), an unexpected name together with an
\* absent a or b is never reported as MISSING_PARAMETER; and with a and b
\* both absent and no parameter rejected, the MISSING_PARAMETER result names a.
C7_UnknownBeforeMissing ==
    (ExecuteReturned /\ lastCall.szInstructionId = "demo-add") =>
        /\ ((\E i \in ParamIndex : ParamName(i) \notin {"a", "b"})
              /\ (~Supplied("a") \/ ~Supplied("b")))
           => lastCall.code # TESTANGEL_ERROR_MISSING_PARAMETER
        /\ (~Supplied("a") /\ ~Supplied("b") /\ Rejected = {})
           => /\ lastCall.code = TESTANGEL_ERROR_MISSING_PARAMETER
              /\ lastCall.szReason = Lit("Parameter 'a' was not supplied")

\* C7 witness: b supplied, a absent and an unexpected c last: the call reports
\* the unexpected name.
C7_Witness ==
    /\ ExecuteReturned
    /\ lastCall.szInstructionId = "demo-add"
    /\ Len(lastCall.arpParameterList) = 2
    /\ ParamName(1) = "b" /\ ParamName(2) = "c"
    /\ lastCall.arpParameterList[1].kind = TA_PARAMETER_INTEGER
    /\ lastCall.code = TESTANGEL_ERROR_INVALID_PARAMETER

\* C8: in every Result a fallible entry point returned, szReason is NULL
\* exactly when code is TESTANGEL_OK.
C8_ReasonIffError ==
    /\ (lastCall.fn \in Fallible /\ lastCall.returned) =>
          /\ lastCall.pResult # NULL
          /\ (lastCall.szReason = NULL) <=> (lastCall.code = TESTANGEL_OK)
    /\ \A hd \in held :
          hd.what = "result" =>
             ((heap[hd.p.a].szReason = NULL) <=> (heap[hd.p.a].code = TESTANGEL_OK))

\* C8 witness: a Result with an error code and a reason, still held by the host.
C8_Witness ==
    /\ ExecuteReturned
    /\ lastCall.code = TESTANGEL_ERROR_INVALID_PARAMETER
    /\ lastCall.szReason # NULL
    /\ Handle("result", lastCall.pResult) \in held

\* what scenario S1 lists for the one instruction
S1_Instructions ==
    <<[id |-> "demo-add",
       flags |-> {TA_INSTRUCTION_FLAG_PURE, TA_INSTRUCTION_FLAG_AUTOMATIC,
                  TA_INSTRUCTION_FLAG_INFALLIBLE},
       params |-> << <<"a", "A", TA_PARAMETER_INTEGER>>,
                     <<"b", "B", TA_PARAMETER_INTEGER>> >>,
       outputs |-> << <<"result", "Result", TA_PARAMETER_INTEGER>> >>]>>

\* C9: whatever the host called before, ta_request_instructions returns OK
\* with ipcVersion 3, friendlyName "Demo C Engine", luaName "DemoC" and the one
\* instruction demo-add with flags {PURE, AUTOMATIC, INFALLIBLE}, parameters
\* (a, A, INTEGER), (b, B, INTEGER) and output (result, Result, INTEGER).
C9_RequestInstructionsStable ==
    (lastCall.fn = "ta_request_instructions" /\ lastCall.returned) =>
        /\ lastCall.code = TESTANGEL_OK
        /\ engineMetadata.iSupportsIpcVersion = 3
        /\ engineMetadata.iSupportsIpcVersion > 0
        /\ engineMetadata.szFriendlyName = Lit("Demo C Engine")
        /\ engineMetadata.szLuaName = Lit("DemoC")
        /\ DecodeInstructions(heap, lastCall.parpOutputInstructions) = S1_Instructions

\* C9 witness: a ta_request_instructions that returned after an earlier
\* instruction array had been handed out and released (its parameter list
\* is still in the heap, and belongs to no array the host holds).
C9_Witness ==
    /\ lastCall.fn = "ta_request_instructions"
    /\ lastCall.returned
    /\ \E addr \in Live(heap) :
          /\ heap[addr].type = "ta_instruction_named_kind*[]"
          /\ addr \notin Owned({"instructions"})

\* what the host sees of a ta_execute: the code and what the two lists hold
Observed(h, code, arpOutputList, arpEvidenceList) ==
    [code |-> code,
     outputs |-> DecodeNamedValues(h, arpOutputList),
     evidence |-> DecodeEvidence(h, arpEvidenceList)]

\* the same arguments with bDryRun flipped, on a freshly loaded engine
OtherRun ==
    LET fresh == Memory([addr \in Addr |-> FreeCell], HostArgs(lastCall.arpParameterList))
        r == execute(fresh, lastCall.szInstructionId, HostPtr(ArgsBase),
                     Len(lastCall.arpParameterList), ~lastCall.bDryRun, FALSE)
    IN  Observed(r.heap, r.heap[r.pResult.a].code, r.parpOutputList,
                 r.parpOutputEvidenceList)

\* C10: ta_execute returns the same code, output values and evidence with
\* bDryRun set as with it clear, whatever was called before: what a call
\* returned is what the same arguments with bDryRun flipped return on a
\* freshly loaded engine.
C10_DryRunSameResult ==
    ExecuteReturned =>
        Observed(heap, lastCall.code, lastCall.parpOutputList,
                 lastCall.parpOutputEvidenceList) = OtherRun

\* C10 witness: a dry run of demo-add that returned the sum and its evidence.
C10_Witness ==
    /\ ExecuteReturned
    /\ lastCall.bDryRun
    /\ lastCall.code = TESTANGEL_OK
    /\ DecodeNamedValues(heap, lastCall.parpOutputList)
          = << <<"result", TA_PARAMETER_INTEGER, 5>> >>
    /\ DecodeEvidence(heap, lastCall.parpOutputEvidenceList)
          = << <<"Sum", TA_EVIDENCE_TEXTUAL, "2 + 3 = 5">> >>

\* the two named values of the last call are a and b, both INTEGER
ParamValue(name) ==
    (CHOOSE p \in {lastCall.arpParameterList[i] : i \in ParamIndex} : p.szName = name).iValue

SumOfTwoCall ==
    /\ lastCall.fn = "ta_execute"
    /\ lastCall.szInstructionId = "demo-add"
    /\ Len(lastCall.arpParameterList) = 2
    /\ {ParamName(i) : i \in ParamIndex} = {"a", "b"}
    /\ \A i \in ParamIndex : lastCall.arpParameterList[i].kind = TA_PARAMETER_INTEGER

\* a + b is a signed 32-bit integer
SumFits(a, b) == IF b >= 0 THEN a <= Int32Max - b ELSE a >= Int32Min - b

\* C11: with a logger registered, ta_execute("demo-add", [a, b]) for any two
\* signed 32-bit integers returns OK, the one output (result, INTEGER, a + b)
\* with a + b a signed 32-bit integer, and the one evidence item
\* (Sum, TEXTUAL, "<a> + <b> = <a+b>").
C11_SumReturned ==
    (SumOfTwoCall /\ ta_log # LogNone) =>
        /\ lastCall.returned
        /\ lastCall.code = TESTANGEL_OK
        /\ SumFits(ParamValue("a"), ParamValue("b"))
        /\ DecodeNamedValues(heap, lastCall.parpOutputList)
              = << <<"result", TA_PARAMETER_INTEGER, ParamValue("a") + ParamValue("b")>> >>
        /\ DecodeEvidence(heap, lastCall.parpOutputEvidenceList)
              = << <<"Sum", TA_EVIDENCE_TEXTUAL,
                     ToString(ParamValue("a")) \o " + " \o ToString(ParamValue("b"))
                     \o " = " \o ToString(ParamValue("a") + ParamValue("b"))>> >>

\* the lists of pointers the host holds: the arrays reachable from its handles
HeldLists ==
    {addr \in Owned({"instructions", "outputs", "evidence"}) \cap Live(heap) :
        "elems" \in DOMAIN heap[addr]}

\* C12: every list of pointers handed to the host ends in a NULL sentinel,
\* has no NULL before it, and every element before it is an allocated block of
\* the list's element type; the walk of each free function stops at the
\* sentinel, inside the block.
C12_ListsTerminated ==
    /\ \A addr \in HeldLists :
          LET elems == heap[addr].elems
          IN  /\ Len(elems) >= 1
              /\ elems[Len(elems)] = NULL
              /\ \A i \in 1..(Len(elems) - 1) :
                    /\ elems[i].seg = "heap"
                    /\ elems[i].a \in Live(heap)
                    /\ heap[elems[i].a].type \o "*[]" = heap[addr].type
    /\ \A hd \in held :
          hd.what \in {"instructions", "outputs", "evidence"} => hd.p.a \in HeldLists
    /\ UB_OVERRUN \notin ub

\* C12 witness: ta_free_instruction_metadata_array walked an instruction
\* array and its lists to the end while the host still held another list.
C12_Witness ==
    /\ lastCall.fn = "ta_free_instruction_metadata_array"
    /\ lastCall.returned
    /\ Len(freedLog) > 0
    /\ HeldLists = {}
    /\ \E addr \in Live(heap) : heap[addr].type = "ta_instruction_named_kind*[]"

\* the pointers a block holds
BlockPointers(blk) ==
    IF blk.type = "ta_result" THEN {blk.szReason}
    ELSE IF blk.type = "ta_instruction_metadata"
    THEN {blk.szId, blk.szLuaName, blk.szFriendlyName, blk.szDescription,
          blk.arpParameterList, blk.arpOutputList}
    ELSE IF blk.type = "ta_instruction_named_kind" THEN {blk.szId, blk.szName}
    ELSE IF blk.type = "ta_named_value" THEN {blk.szName, blk.iValue}
    ELSE IF blk.type = "ta_evidence" THEN {blk.szLabel, blk.value}
    ELSE IF "elems" \in DOMAIN blk THEN {blk.elems[i] : i \in 1..Len(blk.elems)}
    ELSE {}

\* no block of the engine's heap points into the host's blocks, and the call
\* passed none of them to free()
NoHostBlockTaken(h, freed) ==
    /\ \A addr \in Live(h) : \A q \in BlockPointers(h[addr]) : q.seg # "host"
    /\ \A i \in 1..Len(freed) : freed[i].seg # "host"

\* C13: the host's parameter array, its named values, their names and their
\* boxed payloads are left as the host built them by every ta_execute that
\* returns, with OK or with any error, and by every later call of a free
\* function or any other entry point; the engine keeps no pointer to them and
\* passes none of them to free().
C13_HostInputsKept ==
    [][/\ \/ hostArgs' = hostArgs
          \/ /\ lastCall'.fn = "ta_execute"
             /\ hostArgs' = HostArgs(lastCall'.arpParameterList)
       /\ NoHostBlockTaken(heap', freedLog')]_vars

\* C13 witness: the host still has the array of two named values it passed
\* to an earlier ta_execute after ta_free_named_value_array released the
\* outputs of that call.
C13_Witness ==
    /\ lastCall.fn = "ta_free_named_value_array"
    /\ lastCall.returned
    /\ freedLog # <<>>
    /\ hostArgs[ArgsBase].type = "ta_named_value*[]"
    /\ Len(hostArgs[ArgsBase].elems) = 2
    /\ \A i \in 1..2 :
          LET pParam == hostArgs[hostArgs[ArgsBase].elems[i].a]
          IN  /\ pParam.type = "ta_named_value"
              /\ hostArgs[pParam.szName.a].type = "char[]"
              /\ hostArgs[pParam.iValue.a].type = "int32_t"

\* the arguments of the last ta_execute on a freshly loaded engine
FreshExecute ==
    LET fresh == Memory([addr \in Addr |-> FreeCell], HostArgs(lastCall.arpParameterList))
        r == execute(fresh, lastCall.szInstructionId, HostPtr(ArgsBase),
                     Len(lastCall.arpParameterList), lastCall.bDryRun, FALSE)
    IN  Observed(r.heap, r.heap[r.pResult.a].code, r.parpOutputList,
                 r.parpOutputEvidenceList)

\* ta_request_instructions on a freshly loaded engine
FreshRequest ==
    LET r == request_instructions(Memory([addr \in Addr |-> FreeCell], NoArgs))
    IN  [code |-> r.heap[r.pResult.a].code, meta |-> r.meta,
         instructions |-> DecodeInstructions(r.heap, r.parpOutputInstructions)]

\* what the last call returned is what a freshly loaded engine returns
SameAsFresh ==
    /\ ExecuteReturned =>
          Observed(heap, lastCall.code, lastCall.parpOutputList,
                   lastCall.parpOutputEvidenceList) = FreshExecute
    /\ (lastCall.fn = "ta_request_instructions" /\ lastCall.returned) =>
          [code |-> lastCall.code, meta |-> engineMetadata,
           instructions |-> DecodeInstructions(heap, lastCall.parpOutputInstructions)]
             = FreshRequest

\* C14: a ta_reset_state that returns returns OK with no reason, and changes
\* nothing but the one heap cell of its Result: not the logger, not a block
\* handed out earlier, not the host's structs; so after any number of
\* consecutive ta_reset_state calls, as after one or none, ta_request_instructions
\* and ta_execute return what a freshly loaded engine returns.
C14_ResetIdempotent ==
    /\ []SameAsFresh
    /\ [][(lastCall'.fn = "ta_reset_state" /\ lastCall'.returned) =>
             /\ lastCall'.code = TESTANGEL_OK
             /\ lastCall'.szReason = NULL
             /\ ta_log' = ta_log
             /\ engineMetadata' = engineMetadata
             /\ hostArgs' = hostArgs
             /\ held' = held \cup {Handle("result", lastCall'.pResult)}
             /\ IsFree(heap, lastCall'.pResult.a)
             /\ \A addr \in Addr \ {lastCall'.pResult.a} : heap'[addr] = heap[addr]
         ]_vars

\* C14 witness: a second consecutive ta_reset_state returned, the Result of
\* the first still held, with the outputs of an earlier ta_execute in the heap.
C14_Witness ==
    /\ lastCall.fn = "ta_reset_state"
    /\ lastCall.returned
    /\ Cardinality({hd \in held : hd.what = "result"}) = 2
    /\ \E hd \in held : hd.what = "outputs"

\* C15: every call of ta_request_instructions, ta_execute or ta_reset_state
\* returns one Result, also when an allocation inside it fails: the call goes
\* through no NULL that malloc returned, and hands the host a Result block.
\* (Calls that execute the undefined behaviour of C1 and C11 are set aside.)
C15_AlwaysOneResult ==
    (lastCall.fn \in Fallible /\ ub \cap {UB_NULL_LOGGER, UB_OVERFLOW} = {}) =>
        /\ UB_NULL_DEREF \notin ub
        /\ lastCall.returned
        /\ lastCall.pResult # NULL
        /\ heap[lastCall.pResult.a].type = "ta_result"

\* C16: a ta_execute that returns a code other than TESTANGEL_OK has written
\* neither out-parameter, has passed nothing to free(), and has changed the
\* heap in the one cell of its Result only: the host is handed the Result and
\* no array.
C16_ErrorLeavesNoOutputs ==
    [][(lastCall'.fn = "ta_execute" /\ lastCall'.returned
          /\ lastCall'.code # TESTANGEL_OK) =>
            /\ lastCall'.code \in {TESTANGEL_ERROR_INVALID_INSTRUCTION,
                                   TESTANGEL_ERROR_INVALID_PARAMETER,
                                   TESTANGEL_ERROR_INVALID_PARAMETER_TYPE,
                                   TESTANGEL_ERROR_MISSING_PARAMETER}
            /\ lastCall'.parpOutputList = NULL
            /\ lastCall'.parpOutputEvidenceList = NULL
            /\ freedLog' = <<>>
            /\ IsFree(heap, lastCall'.pResult.a)
            /\ heap'[lastCall'.pResult.a].type = "ta_result"
            /\ \A addr \in Addr \ {lastCall'.pResult.a} : heap'[addr] = heap[addr]
            /\ held' = held \cup {Handle("result", lastCall'.pResult)}
      ]_vars

\* C16 witness: a ta_execute rejected for the kind of a, made while the host
\* held the arrays of an earlier successful call.
C16_Witness ==
    /\ ExecuteReturned
    /\ lastCall.code = TESTANGEL_ERROR_INVALID_PARAMETER_TYPE
    /\ lastCall.parpOutputList = NULL
    /\ lastCall.parpOutputEvidenceList = NULL
    /\ \E hd \in held : hd.what = "outputs"
    /\ \E hd \in held : hd.what = "evidence"

\* the last occurrence of name in the parameter array of the last call
LastOf(name) ==
    CHOOSE i \in ParamIndex :
        ParamName(i) = name /\ \A j \in ParamIndex : ParamName(j) = name => j <= i

\* the occurrences of a and b that are not INTEGER
WrongKind == {i \in ParamIndex : lastCall.arpParameterList[i].kind # TA_PARAMETER_INTEGER}

\* C17: for ta_execute("demo-add", params) with every parameter named a or
\* b, however many there are and however often a name recurs: if an
\* occurrence is not an INTEGER the call reports the first such occurrence as
\* INVALID_PARAMETER_TYPE; else, with both names supplied, it returns OK and
\* the output is the value of the last a plus the value of the last b.
C17_LastOccurrenceWins ==
    (ExecuteReturned /\ lastCall.szInstructionId = "demo-add"
       /\ \A i \in ParamIndex : ParamName(i) \in {"a", "b"}) =>
        IF WrongKind # {}
        THEN LET first == CHOOSE i \in WrongKind : \A j \in WrongKind : i <= j
             IN  /\ lastCall.code = TESTANGEL_ERROR_INVALID_PARAMETER_TYPE
                 /\ lastCall.szReason =
                       (IF ParamName(first) = "a"
                        THEN Lit("Parameter A must be an integer!")
                        ELSE Lit("Parameter B must be an integer!"))
        ELSE (Supplied("a") /\ Supplied("b")) =>
                 /\ lastCall.code = TESTANGEL_OK
                 /\ UB_OVERFLOW \notin ub =>
                       DecodeNamedValues(heap, lastCall.parpOutputList)
                         = << <<"result", TA_PARAMETER_INTEGER,
                                lastCall.arpParameterList[LastOf("a")].iValue
                                + lastCall.arpParameterList[LastOf("b")].iValue>> >>

\* C17 witness: a = 2, a = 3, b = 2 returned OK with result 5, the sum of the
\* second a and b.
C17_Witness ==
    /\ ExecuteReturned
    /\ lastCall.code = TESTANGEL_OK
    /\ Len(lastCall.arpParameterList) = 3
    /\ ParamName(1) = "a" /\ ParamName(2) = "a" /\ ParamName(3) = "b"
    /\ lastCall.arpParameterList[1].iValue = 2
    /\ lastCall.arpParameterList[2].iValue = 3
    /\ lastCall.arpParameterList[3].iValue = 2
    /\ DecodeNamedValues(heap, lastCall.parpOutputList)
          = << <<"result", TA_PARAMETER_INTEGER, 5>> >>

\* the entry points that log TRACE with their own name
TracedEntryPoints ==
    {"ta_request_instructions", "ta_execute", "ta_reset_state", "ta_free_result",
     "ta_free_engine_metadata", "ta_free_instruction_metadata_array",
     "ta_free_named_value_array", "ta_free_evidence_array"}

\* what the logger saw of ta_register_logger(fnLog): one DEBUG message, sent to
\* fnLog, which is stored in ta_log
RegisteredOnce ==
    lastCall.fn = "ta_register_logger" =>
        /\ ta_log = lastCall.fnLog
        /\ Len(logged) = 1
        /\ logged[1].to = lastCall.fnLog
        /\ logged[1].level = TA_LOG_DEBUG
        /\ logged[1].msg = "Logger registered"

\* every message of a call made with a logger registered went to ta_log
LoggedToCurrent ==
    (lastCall.returned /\ ta_log # LogNone) =>
        \A i \in 1..Len(logged) : logged[i].to = ta_log

\* C18: ta_register_logger(fn) stores fn in ta_log and calls fn once, with
\* DEBUG "Logger registered"; ta_log changes in no other call, and every
\* message of a later call goes to the logger ta_log holds; the first message
\* of each logging entry point is TRACE with the entry point's name, sent
\* while the heap is as the call found it and nothing has been freed.
C18_LoggerProtocol ==
    /\ []RegisteredOnce
    /\ []LoggedToCurrent
    /\ [][/\ ta_log' # ta_log => lastCall'.fn = "ta_register_logger"
          /\ (lastCall'.returned /\ ta_log' # LogNone
                 /\ lastCall'.fn \in TracedEntryPoints) =>
                /\ logged' # <<>>
                /\ logged'[1].level = TA_LOG_TRACE
                /\ logged'[1].msg = lastCall'.fn
                /\ logged'[1].live = Live(heap)
                /\ logged'[1].freed = 0
         ]_vars

\* C18 witness: with hostLogB registered, a successful ta_execute sent its
\* three messages to hostLogB: the TRACE first, nothing freed yet, the first
\* DEBUG line with one block more allocated, the second after one free().
C18_Witness ==
    /\ ExecuteReturned
    /\ lastCall.code = TESTANGEL_OK
    /\ ta_log = "hostLogB"
    /\ Len(logged) = 3
    /\ \A i \in 1..3 : logged[i].to = "hostLogB"
    /\ logged[1].level = TA_LOG_TRACE /\ logged[1].msg = "ta_execute"
    /\ logged[1].freed = 0
    /\ logged[2].level = TA_LOG_DEBUG
    /\ Cardinality(logged[2].live) = Cardinality(logged[1].live) + 1
    /\ logged[3].freed = 1

====
